---- MODULE Spec2Model ----
(***************************************************************************)
(* SecurePrint Box (src/secureprint_box.py): the job session, the upload   *)
(* gate, the overwrite-then-delete wipe and the leftover sweep.            *)
(*                                                                         *)
(* Two execution contexts: the Tk operator thread (one handler at a time)  *)
(* and the Flask request threads (one per upload, concurrent with each     *)
(* other and with the operator thread).  The shared state is the module    *)
(* global CURRENT_JOB_PATH and the job directory on disk.  No lock exists  *)
(* in the source, so every read or write of the shared state is a step of  *)
(* its own.                                                                *)
(*                                                                         *)
(* File names are sequences of one-character strings.  A job id is the     *)
(* clock second it was formatted from ("JOB_%Y%m%d_%H%M%S" is one-to-one   *)
(* on seconds).                                                            *)
(***************************************************************************)
EXTENDS Integers, Sequences, FiniteSets, TLC

(***************************************************************************)
(* Bounds of the model.                                                    *)
(***************************************************************************)
\* seconds the clock may advance during a run
MaxTicks == 1
\* upload requests served during a run
MaxRequests == 2
\* longest candidate file name enumerated for the upload gate
MaxNameLen == 5

(***************************************************************************)
(* Configuration (lines 19-34).                                            *)
(***************************************************************************)
LEFTOVER_TTL_SECONDS == 30 * 60

MAX_UPLOAD_BYTES == 20 * 1024 * 1024

ALLOWED_EXT ==
  { <<".", "p", "d", "f">>, <<".", "p", "n", "g">>, <<".", "j", "p", "g">>,
    <<".", "j", "p", "e", "g">>, <<".", "d", "o", "c">>,
    <<".", "d", "o", "c", "x">>, <<".", "t", "x", "t">>,
    <<".", "p", "p", "t">>, <<".", "p", "p", "t", "x">>,
    <<".", "x", "l", "s">>, <<".", "x", "l", "s", "x">> }

\* the age marker's file name (lines 69, 73)
MarkerName == <<".", "j", "o", "b", "m", "e", "t", "a">>

\* CURRENT_JOB_PATH["path"] is None / self.current_job_path is None
NoPath == -1

(***************************************************************************)
(* Characters: str.isalnum, str.lower, str.strip over the model's alphabet *)
(***************************************************************************)
UpperChars == {"P", "D", "F", "T", "X"}

LowerChars == {"a", "b", "d", "e", "f", "g", "j", "l", "m", "n", "o", "p",
               "s", "t", "x", "c"}

DigitChars == {"0", "1", "2", "3", "4", "5", "6", "7", "8", "9"}

isalnum(c) == c \in UpperChars \cup LowerChars \cup DigitChars

isspace(c) == c = " "

lower(c) ==
  CASE c = "P" -> "p"
    [] c = "D" -> "d"
    [] c = "F" -> "f"
    [] c = "T" -> "t"
    [] c = "X" -> "x"
    [] OTHER -> c

RECURSIVE lstrip(_)
lstrip(s) == IF s # << >> /\ isspace(Head(s)) THEN lstrip(Tail(s)) ELSE s

RECURSIVE rstrip(_)
rstrip(s) ==
  IF s # << >> /\ isspace(s[Len(s)]) THEN rstrip(SubSeq(s, 1, Len(s) - 1))
  ELSE s

strip(s) == rstrip(lstrip(s))

\* str.replace(old, new) for one-character old and new
replace(s, old, new) == [i \in 1..Len(s) |-> IF s[i] = old THEN new ELSE s[i]]

\* str.lower
lower_str(s) == [i \in 1..Len(s) |-> lower(s[i])]

\* "".join(c for c in name if keep(c))
RECURSIVE keep_chars(_)
keep_chars(s) ==
  IF s = << >> THEN << >>
  ELSE IF isalnum(Head(s)) \/ Head(s) \in {" ", ".", "_", "-", "(", ")"}
       THEN <<Head(s)>> \o keep_chars(Tail(s))
       ELSE keep_chars(Tail(s))

\* safe_filename reduced to the strip(): separators and other characters kept
safe_filename_strip_only(name) == strip(name)

\* safe_filename (lines 56-59)
safe_filename(name) ==
  strip(keep_chars(strip(replace(replace(name, "\\", "_"), "/", "_"))))

(***************************************************************************)
(* pathlib: PurePath.suffix and PurePath.stem of a name without separator  *)
(***************************************************************************)
\* str.rfind("."): the last index of ".", 0 when there is none
rfind_dot(s) ==
  LET hits == {i \in 1..Len(s) : s[i] = "."}
  IN  IF hits = {} THEN 0 ELSE CHOOSE i \in hits : \A k \in hits : k <= i

\* Path(name).suffix: from the last dot, unless that dot is the first or the
\* last character of the name
suffix(name) ==
  LET i == rfind_dot(name)
  IN  IF 1 < i /\ i < Len(name) THEN SubSeq(name, i, Len(name)) ELSE << >>

\* Path(name).stem
stem(name) ==
  LET i == rfind_dot(name)
  IN  IF 1 < i /\ i < Len(name) THEN SubSeq(name, 1, i - 1) ELSE name

\* is_allowed with the .lower() of line 62 left out
is_allowed_case_sensitive(filename) == suffix(filename) \in ALLOWED_EXT

\* is_allowed letting a name without extension pass
is_allowed_or_no_extension(filename) ==
  suffix(filename) = << >> \/ lower_str(suffix(filename)) \in ALLOWED_EXT

\* is_allowed (lines 61-63)
is_allowed(filename) == lower_str(suffix(filename)) \in ALLOWED_EXT

(***************************************************************************)
(* str(int): the decimal digits of a non-negative integer                  *)
(***************************************************************************)
DigitOf(d) ==
  CASE d = 0 -> "0" [] d = 1 -> "1" [] d = 2 -> "2" [] d = 3 -> "3"
    [] d = 4 -> "4" [] d = 5 -> "5" [] d = 6 -> "6" [] d = 7 -> "7"
    [] d = 8 -> "8" [] OTHER -> "9"

RECURSIVE str_int(_)
str_int(n) ==
  IF n < 10 THEN <<DigitOf(n)>> ELSE str_int(n \div 10) \o <<DigitOf(n % 10)>>

\* f"{stem}_{int(time.time())}{ext}" (line 226)
collision_name(name, t) == stem(name) \o <<"_">> \o str_int(t) \o suffix(name)

(***************************************************************************)
(* The HTTP request as the transport hands it to upload().                 *)
(***************************************************************************)
\* bytes a multipart/form-data body adds around a file part named "file":
\* the opening delimiter line, Content-Disposition with the field and file
\* name, the blank line, and the closing delimiter, for a 1-character
\* boundary (the form of line 186)
multipart_framing(filename) ==
  Len(<<"-", "-", "b", "\r", "\n">>)
  + 55 + Len(filename) + Len(<<"\"", "\r", "\n">>)
  + Len(<<"\r", "\n">>)
  + Len(<<"\r", "\n", "-", "-", "b", "-", "-">>)

\* request.content_length of a POST carrying one part
content_length(req) == req.payload + multipart_framing(req.filename)

\* werkzeug raises RequestEntityTooLarge (413) on the first access to
\* request.files when the body is longer than MAX_CONTENT_LENGTH (line 158)
too_large(req) == content_length(req) > MAX_UPLOAD_BYTES

Request(field, filename, payload) ==
  [field |-> field, filename |-> filename, payload |-> payload]

(***************************************************************************)
(* State.                                                                  *)
(***************************************************************************)
VARIABLES
  now,               \* time.time(), in whole seconds
  JOBS_DIR,          \* the job root on disk: job id -> [mtime, files];
                     \* mtime is the folder's, as the startup sweep reads it
  locked,            \* files another program holds open: <<job id, name>>
  CURRENT_JOB_PATH,  \* line 161: the binding the upload gate reads
  current_job_path,  \* self.current_job_id / self.current_job_path
  btn_end,           \* state of btn_refresh, btn_open and btn_end
  server_running,    \* self.server_running
  uiPc,              \* the operator thread's position
  job_path,          \* the folder the operator thread is working on
  folders,           \* entries of JOBS_DIR.iterdir() not yet visited
  rglob,             \* entries of job_path.rglob("*") not yet visited
  wipePc,            \* position inside wipe_job_folder
  now_ts,            \* cleanup_leftover_jobs: now_ts
  cleaned,           \* cleanup_leftover_jobs: cleaned
  up,                \* the request threads
  requests,          \* requests received so far
  bound_at_call,     \* history: the binding when emergency_clean began
  swept,             \* history: folders the sweep handed to the wipe
  at_start,          \* history: the job root in the initial state
  wipe_begun,        \* history: per request, a wipe of its store began
  quiet,             \* history: no request and no start_job or end_job
                     \* since the last emergency_clean was called
  wiping,            \* the file basic_secure_delete_file is called on,
                     \* followed write by write
  second             \* a second process of the program, started while
                     \* this one runs: its cleanup_leftover_jobs

vars ==
  << now, JOBS_DIR, locked, CURRENT_JOB_PATH, current_job_path, btn_end,
     server_running, uiPc, job_path, folders, rglob, wipePc, now_ts,
     cleaned, up, requests, bound_at_call, swept, at_start, wipe_begun, quiet,
     wiping, second >>

uiVars ==
  << current_job_path, btn_end, server_running, uiPc, job_path,
     folders, rglob, wipePc, now_ts, cleaned >>

Uploaders == {1, 2}

\* the second the program is started at: a leftover written at second 0 is
\* then exactly LEFTOVER_TTL_SECONDS old
StartTime == LEFTOVER_TTL_SECONDS

(***************************************************************************)
(* The job root as a value: job id -> [mtime, files: name -> content].     *)
(***************************************************************************)
Marker(ts) == [kind |-> "marker", val |-> ts]

Garbage == [kind |-> "garbage", val |-> 0]

\* an uploaded document; its bytes are not told apart
Uploaded == [kind |-> "upload", val |-> 0]

Store(mtime, files) == [mtime |-> mtime, files |-> files]

NoFiles == [n \in {} |-> Uploaded]

OneFile(name, content) == [n \in {name} |-> content]

exists(dir, job) == job \in DOMAIN dir

file_exists(dir, job, name) ==
  exists(dir, job) /\ name \in DOMAIN dir[job].files

\* create or replace one file of a store
put_file(dir, job, name, content) ==
  LET old == dir[job].files
  IN  [dir EXCEPT ![job].files =
         [n \in DOMAIN old \cup {name} |->
            IF n = name THEN content ELSE old[n]]]

\* remove a set of files of a store
drop_files(dir, job, names) ==
  LET old == dir[job].files
  IN  [dir EXCEPT ![job].files = [n \in DOMAIN old \ names |-> old[n]]]

\* Path.mkdir(parents=True, exist_ok=True)
mkdir(dir, job, t) ==
  IF exists(dir, job) THEN dir
  ELSE [j \in DOMAIN dir \cup {job} |->
          IF j = job THEN Store(t, NoFiles) ELSE dir[j]]

\* os.rmdir: only an empty directory goes
rmdir(dir, job) ==
  IF exists(dir, job) /\ DOMAIN dir[job].files = {}
  THEN [j \in DOMAIN dir \ {job} |-> dir[j]]
  ELSE dir

\* now_job_id (lines 65-66)
now_job_id(t) == t

\* write_marker (lines 68-70)
write_marker(dir, job, t) == put_file(dir, job, MarkerName, Marker(t))

\* read_marker_ts (lines 72-79): None is NoPath
read_marker_ts(dir, job) ==
  IF file_exists(dir, job, MarkerName)
  THEN IF dir[job].files[MarkerName].kind = "marker"
       THEN dir[job].files[MarkerName].val
       ELSE NoPath
  ELSE NoPath

\* basic_secure_delete_file (lines 81-112) on file p of store job: a file
\* that is held open can be neither opened for overwrite nor unlinked, and
\* both failures are swallowed
basic_secure_delete_file(dir, lk, job, p) ==
  IF ~file_exists(dir, job, p) THEN dir
  ELSE IF <<job, p>> \in lk THEN dir
  ELSE drop_files(dir, job, {p})

\* shutil.rmtree(ignore_errors=True), the unlink of every entry (line 128)
rmtree_unlink(dir, lk, job) ==
  IF ~exists(dir, job) THEN dir
  ELSE drop_files(dir, job,
                  {n \in DOMAIN dir[job].files : <<job, n>> \notin lk})

\* the names refresh_list shows (lines 345-351)
listing(dir, job) ==
  IF job = NoPath \/ ~exists(dir, job) THEN {}
  ELSE DOMAIN dir[job].files \ {MarkerName}

(***************************************************************************)
(* Initial states.                                                         *)
(***************************************************************************)
\* no call of basic_secure_delete_file is being followed
NoFile == [pc |-> "none"]

\* no second process has been started
NotStarted == [pc |-> "off"]

NoRequest == Request("none", << >>, 0)

\* a request thread: its position, flask.request, the locals job_path, name
\* and dest of upload(), and the response it sent last
IdleThread ==
  [pc |-> "idle", req |-> NoRequest, job_path |-> NoPath, name |-> << >>,
   dest |-> << >>, outcome |-> "none"]

\* what every initial state shares: nothing bound, no handler running
InitCommon ==
  /\ now = StartTime
  /\ CURRENT_JOB_PATH = NoPath
  /\ current_job_path = NoPath
  /\ btn_end = "disabled"
  /\ job_path = NoPath
  /\ folders = {}
  /\ rglob = {}
  /\ wipePc = "none"
  /\ now_ts = 0
  /\ cleaned = 0
  /\ up = [u \in Uploaders |-> IdleThread]
  /\ requests = 0
  /\ bound_at_call = NoPath
  /\ swept = {}
  /\ wipe_begun = [u \in Uploaders |-> FALSE]
  /\ quiet = FALSE
  /\ wiping = NoFile
  /\ second = NotStarted

\* SecurePrintUI.__init__ has returned (lines 239-318) on an empty job root:
\* the server thread runs and the operator has pressed nothing yet
Init ==
  /\ InitCommon
  /\ JOBS_DIR = [j \in {} |-> Store(0, NoFiles)]
  /\ locked = {}
  /\ at_start = JOBS_DIR
  /\ server_running = TRUE
  /\ uiPc = "idle"

(***************************************************************************)
(* The clock.                                                              *)
(***************************************************************************)
Tick ==
  /\ now < StartTime + MaxTicks
  /\ now' = now + 1
  /\ UNCHANGED << JOBS_DIR, locked, CURRENT_JOB_PATH, uiVars, up, requests,
                  bound_at_call, swept, at_start, wipe_begun, quiet,
                  wiping, second >>

(***************************************************************************)
(* upload() (lines 204-229), one request thread u.                         *)
(***************************************************************************)
\* the checks with the test of line 207 left out
gate_without_session_check(binding, req) ==
  IF too_large(req) THEN "PayloadTooLarge"
  ELSE IF req.field # "file" THEN "NoFileSelected"
  ELSE IF req.filename = << >> THEN "NoFileSelected"
  ELSE IF ~is_allowed(safe_filename(req.filename)) THEN "ExtensionNotAllowed"
  ELSE "admit"

\* lines 206-219: the checks, in the order the code makes them; "admit"
\* when all pass
gate(binding, req) ==
  IF binding = NoPath THEN "NoActiveSession"
  ELSE IF too_large(req) THEN "PayloadTooLarge"
  ELSE IF req.field # "file" THEN "NoFileSelected"
  ELSE IF req.filename = << >> THEN "NoFileSelected"
  ELSE IF ~is_allowed(safe_filename(req.filename)) THEN "ExtensionNotAllowed"
  ELSE "admit"

\* lines 206-219: read the binding, then validate the request
upload_begin(u, Requests) ==
  /\ server_running
  /\ up[u].pc = "idle"
  /\ requests < MaxRequests
  /\ \E req \in Requests :
       LET res == gate(CURRENT_JOB_PATH, req)
       IN  up' = [up EXCEPT ![u] =
                    IF res = "admit"
                    THEN [pc |-> "exists", req |-> req,
                          job_path |-> CURRENT_JOB_PATH,
                          name |-> safe_filename(req.filename),
                          dest |-> << >>, outcome |-> "none"]
                    ELSE [IdleThread EXCEPT !.req = req, !.outcome = res]]
  /\ requests' = requests + 1
  /\ wipe_begun' = [wipe_begun EXCEPT ![u] = FALSE]
  /\ quiet' = FALSE
  /\ UNCHANGED << now, JOBS_DIR, locked, CURRENT_JOB_PATH, uiVars,
                  bound_at_call, swept, at_start, wiping, second >>

\* lines 221-226: choose the destination name
destination(dir, job, name, t) ==
  IF file_exists(dir, job, name) THEN collision_name(name, t) ELSE name

upload_exists(u) ==
  /\ up[u].pc = "exists"
  /\ up' = [up EXCEPT ![u].pc = "save",
                      ![u].dest = destination(JOBS_DIR, up[u].job_path,
                                              up[u].name, now)]
  /\ quiet' = FALSE
  /\ UNCHANGED << now, JOBS_DIR, locked, CURRENT_JOB_PATH, uiVars,
                  requests, bound_at_call, swept, at_start, wipe_begun,
                  wiping, second >>

\* line 228: f.save(dest) opens dest for writing: it fails when the store
\* directory is gone or the file is held open, and otherwise creates or
\* truncates the file
can_save(dir, lk, job, dest) == exists(dir, job) /\ <<job, dest>> \notin lk

upload_save(u) ==
  /\ up[u].pc = "save"
  /\ IF can_save(JOBS_DIR, locked, up[u].job_path, up[u].dest)
     THEN /\ JOBS_DIR' = put_file(JOBS_DIR, up[u].job_path, up[u].dest,
                                  Uploaded)
          /\ up' = [up EXCEPT ![u] = [IdleThread EXCEPT
                                         !.req = up[u].req,
                                         !.outcome = "Uploaded"]]
     ELSE /\ JOBS_DIR' = JOBS_DIR
          /\ up' = [up EXCEPT ![u] = [IdleThread EXCEPT
                                         !.req = up[u].req,
                                         !.outcome = "WriteFailed"]]
  /\ wipe_begun' = [wipe_begun EXCEPT ![u] = FALSE]
  /\ quiet' = FALSE
  /\ UNCHANGED << now, locked, CURRENT_JOB_PATH, uiVars, requests,
                  bound_at_call, swept, at_start, wiping, second >>

(***************************************************************************)
(* wipe_job_folder(job_path) (lines 114-130), run by the operator thread   *)
(* from end_job, emergency_clean and cleanup_leftover_jobs.                *)
(***************************************************************************)
\* a request that has read this store as its destination and not yet saved
in_flight(u, job) == up[u].pc \in {"exists", "save"} /\ up[u].job_path = job

\* lines 118-122: return when the folder is gone, else list its files
wipe_scan ==
  /\ wipePc = "scan"
  /\ IF exists(JOBS_DIR, job_path)
     THEN /\ rglob' = DOMAIN JOBS_DIR[job_path].files
          /\ wipePc' = "files"
          /\ wipe_begun' = [u \in Uploaders |->
                              wipe_begun[u] \/ in_flight(u, job_path)]
     ELSE /\ rglob' = {}
          /\ wipePc' = "none"
          /\ wipe_begun' = wipe_begun
  /\ UNCHANGED << now, JOBS_DIR, locked, CURRENT_JOB_PATH,
                  current_job_path, btn_end, server_running, uiPc,
                  job_path, folders, now_ts, cleaned, up, requests,
                  bound_at_call, swept, at_start, quiet, wiping, second >>

\* the loop of lines 122-124 without the try of basic_secure_delete_file: a
\* file that is held open raises and the wipe goes no further
wipe_file_raises ==
  /\ wipePc = "files"
  /\ \E p \in rglob :
       /\ <<job_path, p>> \notin locked
       /\ JOBS_DIR' = basic_secure_delete_file(JOBS_DIR, locked, job_path, p)
       /\ rglob' = rglob \ {p}
  /\ UNCHANGED << now, locked, CURRENT_JOB_PATH, current_job_path, btn_end,
                  server_running, uiPc, job_path, folders, wipePc, now_ts,
                  cleaned, up, requests, bound_at_call, swept, at_start,
                  wipe_begun, quiet, wiping, second >>

\* lines 122-124: the next listed file is overwritten and unlinked
wipe_file ==
  /\ wipePc = "files"
  /\ \E p \in rglob :
       /\ JOBS_DIR' = basic_secure_delete_file(JOBS_DIR, locked, job_path, p)
       /\ rglob' = rglob \ {p}
  /\ UNCHANGED << now, locked, CURRENT_JOB_PATH, current_job_path, btn_end,
                  server_running, uiPc, job_path, folders, wipePc, now_ts,
                  cleaned, up, requests, bound_at_call, swept, at_start,
                  wipe_begun, quiet, wiping, second >>

\* line 128, first half: rmtree lists the folder and unlinks every entry
wipe_rmtree ==
  /\ wipePc = "files"
  /\ rglob = {}
  /\ JOBS_DIR' = rmtree_unlink(JOBS_DIR, locked, job_path)
  /\ wipePc' = "rmdir"
  /\ UNCHANGED << now, locked, CURRENT_JOB_PATH, current_job_path, btn_end,
                  server_running, uiPc, job_path, folders, rglob, now_ts,
                  cleaned, up, requests, bound_at_call, swept, at_start,
                  wipe_begun, quiet, wiping, second >>

\* line 128, second half: rmtree removes the folder; a folder that is not
\* empty stays, and the error is ignored
wipe_rmdir ==
  /\ wipePc = "rmdir"
  /\ JOBS_DIR' = rmdir(JOBS_DIR, job_path)
  /\ wipePc' = "none"
  /\ UNCHANGED << now, locked, CURRENT_JOB_PATH, current_job_path, btn_end,
                  server_running, uiPc, job_path, folders, rglob, now_ts,
                  cleaned, up, requests, bound_at_call, swept, at_start,
                  wipe_begun, quiet, wiping, second >>

(***************************************************************************)
(* SecurePrintUI.start_job (lines 329-343).                                *)
(***************************************************************************)
\* lines 330-332: the id, the path, the directory.  The Start button is
\* never disabled, so the handler runs in any idle state.
start_job ==
  /\ uiPc = "idle"
  /\ current_job_path' = now_job_id(now)
  /\ JOBS_DIR' = mkdir(JOBS_DIR, now_job_id(now), now)
  /\ uiPc' = "start_marker"
  /\ bound_at_call' = bound_at_call
  /\ quiet' = FALSE
  /\ UNCHANGED << now, locked, CURRENT_JOB_PATH, btn_end, server_running,
                  job_path, folders, rglob, wipePc, now_ts, cleaned, up,
                  requests, swept, at_start, wipe_begun, wiping, second >>

\* line 333
start_marker ==
  /\ uiPc = "start_marker"
  /\ JOBS_DIR' = write_marker(JOBS_DIR, current_job_path, now)
  /\ uiPc' = "start_publish"
  /\ UNCHANGED << now, locked, CURRENT_JOB_PATH, current_job_path, btn_end,
                  server_running, job_path, folders, rglob, wipePc, now_ts,
                  cleaned, up, requests, bound_at_call, swept, at_start,
                  wipe_begun, quiet, wiping, second >>

\* line 335: the value start_job publishes as the binding
published(path) == path

\* lines 335-343: publish the binding, enable the buttons, refresh the list
start_publish ==
  /\ uiPc = "start_publish"
  /\ CURRENT_JOB_PATH' = published(current_job_path)
  /\ btn_end' = "normal"
  /\ uiPc' = "idle"
  /\ UNCHANGED << now, JOBS_DIR, locked, current_job_path, server_running,
                  job_path, folders, rglob, wipePc, now_ts, cleaned, up,
                  requests, bound_at_call, swept, at_start, wipe_begun,
                  quiet, wiping, second >>

(***************************************************************************)
(* refresh_list (lines 345-351) and open_selected (lines 353-372): the     *)
(* operator refreshes the list, selects one of the names shown and opens   *)
(* it.  os.startfile hands the file to its viewer, which holds it open.    *)
(***************************************************************************)
open_selected ==
  /\ uiPc = "idle"
  /\ btn_end = "normal"
  /\ current_job_path # NoPath
  /\ \E filename \in listing(JOBS_DIR, current_job_path) :
       /\ <<current_job_path, filename>> \notin locked
       /\ locked' = locked \cup {<<current_job_path, filename>>}
  /\ UNCHANGED << now, JOBS_DIR, CURRENT_JOB_PATH, current_job_path,
                  btn_end, server_running, uiPc, job_path, folders, rglob,
                  wipePc, now_ts, cleaned, up, requests, bound_at_call,
                  swept, at_start, wipe_begun, quiet, wiping, second >>

(***************************************************************************)
(* SecurePrintUI.end_job (lines 374-400), the operator answering yes.      *)
(***************************************************************************)
\* end_job with line 384 left out
end_job_keeps_binding(old) == old

\* line 384: the binding end_job leaves before it wipes
end_job_binding(old) == NoPath

\* lines 375-389: remember the path, close the gate, call the wipe
end_job ==
  /\ uiPc = "idle"
  /\ btn_end = "normal"
  /\ current_job_path # NoPath
  /\ job_path' = current_job_path
  /\ CURRENT_JOB_PATH' = end_job_binding(CURRENT_JOB_PATH)
  /\ uiPc' = "end_job"
  /\ wipePc' = "scan"
  /\ bound_at_call' = bound_at_call
  /\ quiet' = FALSE
  /\ UNCHANGED << now, JOBS_DIR, locked, current_job_path, btn_end,
                  server_running, folders, rglob, now_ts, cleaned, up,
                  requests, swept, at_start, wipe_begun, wiping, second >>

\* lines 391-400: the wipe has returned
end_job_return ==
  /\ uiPc = "end_job"
  /\ wipePc = "none"
  /\ current_job_path' = NoPath
  /\ btn_end' = "disabled"
  /\ uiPc' = "idle"
  /\ job_path' = NoPath
  /\ bound_at_call' = bound_at_call
  /\ UNCHANGED << now, JOBS_DIR, locked, CURRENT_JOB_PATH, server_running,
                  folders, rglob, wipePc, now_ts, cleaned, up, requests,
                  swept, at_start, wipe_begun, quiet, wiping, second >>

(***************************************************************************)
(* SecurePrintUI.emergency_clean (lines 402-425), the operator answering   *)
(* yes.                                                                    *)
(***************************************************************************)
\* line 408: the binding emergency_clean leaves before it wipes
emergency_binding(old) == NoPath

\* lines 408-414: close the gate, list the job root
emergency_clean ==
  /\ uiPc = "idle"
  /\ CURRENT_JOB_PATH' = emergency_binding(CURRENT_JOB_PATH)
  /\ folders' = DOMAIN JOBS_DIR
  /\ uiPc' = "emergency_clean"
  /\ bound_at_call' = CURRENT_JOB_PATH
  /\ quiet' = \A u \in Uploaders : up[u].pc = "idle"
  /\ UNCHANGED << now, JOBS_DIR, locked, current_job_path, btn_end,
                  server_running, job_path, rglob, wipePc, now_ts, cleaned,
                  up, requests, swept, at_start, wipe_begun, wiping,
                  second >>

\* lines 414-416: the next listed folder goes to the wipe
emergency_next ==
  /\ uiPc = "emergency_clean"
  /\ wipePc = "none"
  /\ \E job \in folders :
       /\ job_path' = job
       /\ folders' = folders \ {job}
  /\ wipePc' = "scan"
  /\ UNCHANGED << now, JOBS_DIR, locked, CURRENT_JOB_PATH,
                  current_job_path, btn_end, server_running, uiPc, rglob,
                  now_ts, cleaned, up, requests, bound_at_call, swept,
                  at_start, wipe_begun, quiet, wiping, second >>

\* lines 418-425: every listed folder has been handed to the wipe
emergency_return ==
  /\ uiPc = "emergency_clean"
  /\ wipePc = "none"
  /\ folders = {}
  /\ current_job_path' = NoPath
  /\ btn_end' = "disabled"
  /\ uiPc' = "idle"
  /\ job_path' = NoPath
  /\ bound_at_call' = NoPath
  /\ quiet' = quiet
  /\ UNCHANGED << now, JOBS_DIR, locked, CURRENT_JOB_PATH, server_running,
                  folders, rglob, wipePc, now_ts, cleaned, up, requests,
                  swept, at_start, wipe_begun, wiping, second >>

(***************************************************************************)
(* The running program.                                                    *)
(***************************************************************************)
\* what the clients of a session send: a small document
SessionRequests == { Request("file", <<"a", ".", "p", "d", "f">>, 1) }

Next ==
  \/ Tick
  \/ \E u \in Uploaders : upload_begin(u, SessionRequests)
  \/ \E u \in Uploaders : upload_exists(u)
  \/ \E u \in Uploaders : upload_save(u)
  \/ start_job
  \/ start_marker
  \/ start_publish
  \/ open_selected
  \/ end_job
  \/ end_job_return
  \/ emergency_clean
  \/ emergency_next
  \/ emergency_return
  \/ wipe_scan
  \/ wipe_file
  \/ wipe_rmtree
  \/ wipe_rmdir

Spec == Init /\ [][Next]_vars

(***************************************************************************)
(* Start-up: SecurePrintUI.__init__ (lines 239-318) runs                   *)
(* cleanup_leftover_jobs (lines 132-152) over what an earlier run left in  *)
(* the job root, then starts the server.                                   *)
(***************************************************************************)
\* seconds, counted from 0, at which an earlier run created a folder
MaxLeftover == 2

LeftoverIds == 0 .. (MaxLeftover - 1)

LeftoverDoc == <<"a", ".", "p", "d", "f">>

\* with(files, doc): the files plus one document
with_doc(files) ==
  [n \in DOMAIN files \cup {LeftoverDoc} |->
     IF n = LeftoverDoc THEN Uploaded ELSE files[n]]

\* what one leftover folder may be: its marker as write_marker wrote it, or
\* no marker or an unreadable one and any modification time; no document,
\* or one
LeftoverStores(j) ==
  LET marked   == { Store(j, OneFile(MarkerName, Marker(j))) }
      unmarked == { Store(mt, files) :
                      mt \in LeftoverIds,
                      files \in {NoFiles, OneFile(MarkerName, Garbage)} }
  IN  marked \cup unmarked
      \cup { Store(st.mtime, with_doc(st.files)) : st \in marked \cup unmarked }

\* the job roots an earlier run may have left
LeftoverRoots ==
  UNION { { dir \in [ids -> UNION { LeftoverStores(j) : j \in ids }] :
              \A j \in ids : dir[j] \in LeftoverStores(j) } :
          ids \in SUBSET LeftoverIds }

\* documents of a leftover root some other program may still hold open
LeftoverDocs(dir) ==
  { jn \in (DOMAIN dir) \X {LeftoverDoc} :
      jn[2] \in DOMAIN dir[jn[1]].files }

\* main() has called SecurePrintUI(root): nothing has run yet
SweepInit ==
  /\ InitCommon
  /\ JOBS_DIR \in LeftoverRoots
  /\ locked \in SUBSET LeftoverDocs(JOBS_DIR)
  /\ at_start = JOBS_DIR
  /\ server_running = FALSE
  /\ uiPc = "construct"

\* lines 144-147: the timestamp the age is counted from
age_source(dir, job) ==
  IF read_marker_ts(dir, job) = NoPath THEN dir[job].mtime
  ELSE read_marker_ts(dir, job)

\* the age test of line 149 with > for >=
is_leftover_strict(dir, job, ts) ==
  ts - age_source(dir, job) > LEFTOVER_TTL_SECONDS

\* lines 148-149
is_leftover(dir, job, ts) == ts - age_source(dir, job) >= LEFTOVER_TTL_SECONDS

\* lines 136-141: read the clock, list the job root
cleanup_begin ==
  /\ uiPc = "construct"
  /\ now_ts' = now
  /\ cleaned' = 0
  /\ folders' = DOMAIN JOBS_DIR
  /\ uiPc' = "cleanup"
  /\ UNCHANGED << now, JOBS_DIR, locked, CURRENT_JOB_PATH,
                  current_job_path, btn_end, server_running, job_path,
                  rglob, wipePc, up, requests, bound_at_call, swept,
                  at_start, wipe_begun, quiet, wiping, second >>

\* lines 141-151: the next listed folder; an expired one goes to the wipe
\* and is counted
cleanup_next ==
  /\ uiPc = "cleanup"
  /\ wipePc = "none"
  /\ \E job_folder \in folders :
       /\ folders' = folders \ {job_folder}
       /\ IF is_leftover(JOBS_DIR, job_folder, now_ts)
          THEN /\ job_path' = job_folder
               /\ wipePc' = "scan"
               /\ cleaned' = cleaned + 1
               /\ swept' = swept \cup {job_folder}
          ELSE /\ job_path' = job_path
               /\ wipePc' = wipePc
               /\ cleaned' = cleaned
               /\ swept' = swept
  /\ UNCHANGED << now, JOBS_DIR, locked, CURRENT_JOB_PATH,
                  current_job_path, btn_end, server_running, uiPc, rglob,
                  now_ts, up, requests, bound_at_call, at_start,
                  wipe_begun, quiet, wiping, second >>

\* line 152 and lines 247-318: the count is returned, the session fields
\* are set to None and the server thread is started
cleanup_return ==
  /\ uiPc = "cleanup"
  /\ wipePc = "none"
  /\ folders = {}
  /\ current_job_path' = NoPath
  /\ server_running' = TRUE
  /\ job_path' = NoPath
  /\ uiPc' = "idle"
  /\ UNCHANGED << now, JOBS_DIR, locked, CURRENT_JOB_PATH, btn_end,
                  folders, rglob, wipePc, now_ts, cleaned, up, requests,
                  bound_at_call, swept, at_start, wipe_begun, quiet,
                  wiping, second >>

SweepNext ==
  \/ Tick
  \/ cleanup_begin
  \/ cleanup_next
  \/ cleanup_return
  \/ wipe_scan
  \/ wipe_file
  \/ wipe_rmtree
  \/ wipe_rmdir

SweepSpec == SweepInit /\ [][SweepNext]_vars

(***************************************************************************)
(* The upload gate on its own: one request thread serving the last request *)
(* of a run, with the session closed or with one open, empty or holding a  *)
(* document, and every candidate file name up to MaxNameLen characters.    *)
(***************************************************************************)
GateAlphabet == {"t", "x", "T", ".", "/"}

RECURSIVE NamesOfLen(_)
NamesOfLen(n) ==
  IF n = 0 THEN { << >> }
  ELSE { <<c>> \o s : c \in GateAlphabet, s \in NamesOfLen(n - 1) }

GateNames == UNION { NamesOfLen(n) : n \in 0 .. MaxNameLen }

\* names of the documentation and of the attacks it names
SampleNames ==
  { <<"a", ".", "p", "d", "f">>, <<"a", ".", "P", "D", "F">>,
    <<"a", ".", "e", "x", "e">>, <<"a", ".", "d", "o", "c", "x">>,
    <<"a", ".", "j", "p", "e", "g">>, <<"a", ".", "p", "n", "g">>,
    <<"a", ".", "j", "p", "g">>, <<"a", ".", "d", "o", "c">>,
    <<"a", ".", "p", "p", "t">>, <<"a", ".", "p", "p", "t", "x">>,
    <<"a", ".", "x", "l", "s">>, <<"a", ".", "x", "l", "s", "x">>,
    <<"a", ".", "t", "x", "t">>, <<"a", ".", "p", "d", "f", ".">>,
    <<"a", ".", "t", "x", "t", ".", "e", "x", "e">>,
    <<"a", ".", "e", "x", "e", ".", "t", "x", "t">>,
    <<".", "p", "d", "f">>, <<"a", "p", "d", "f">>,
    <<".", ".", "/", ".", ".", "/", "e", ".", "p", "d", "f">>,
    <<".", ".", "\\", "e", ".", "p", "d", "f">>,
    <<" ", "a", ".", "p", "d", "f", " ">>, <<"a", ".", "p", "%", "d", "f">>,
    <<"a", ".", " ", "p", "d", "f">>, <<"%">>, <<" ">>,
    MarkerName, <<" ">> \o MarkerName,
    <<".", "j", "o", "b", "%", "m", "e", "t", "a">> }

\* payloads around the byte ceiling, for a file name
GateSizes(filename) ==
  { 1,
    MAX_UPLOAD_BYTES - multipart_framing(filename),
    MAX_UPLOAD_BYTES - multipart_framing(filename) + 1,
    MAX_UPLOAD_BYTES,
    MAX_UPLOAD_BYTES + 1 }

GateRequests ==
  { Request("file", n, 1) : n \in GateNames }
  \cup UNION { { Request(f, n, sz) : f \in {"file", "other"},
                                     sz \in GateSizes(n) } :
               n \in SampleNames \cup { << >> } }

\* an open session as start_job leaves it, and one that already holds a.pdf
OpenRoots ==
  { [j \in {StartTime} |->
       Store(StartTime, OneFile(MarkerName, Marker(StartTime)))],
    [j \in {StartTime} |->
       Store(StartTime,
             [n \in {MarkerName, <<"a", ".", "p", "d", "f">>} |->
                IF n = MarkerName THEN Marker(StartTime) ELSE Uploaded])] }

GateInit ==
  /\ now = StartTime
  /\ locked = {}
  /\ \/ /\ JOBS_DIR = [j \in {} |-> Store(0, NoFiles)]
        /\ CURRENT_JOB_PATH = NoPath
        /\ current_job_path = NoPath
        /\ btn_end = "disabled"
     \/ /\ JOBS_DIR \in OpenRoots
        /\ CURRENT_JOB_PATH = StartTime
        /\ current_job_path = StartTime
        /\ btn_end = "normal"
  /\ at_start = JOBS_DIR
  /\ server_running = TRUE
  /\ uiPc = "idle"
  /\ job_path = NoPath
  /\ folders = {}
  /\ rglob = {}
  /\ wipePc = "none"
  /\ now_ts = 0
  /\ cleaned = 0
  /\ up = [u \in Uploaders |-> IdleThread]
  /\ requests = MaxRequests - 1
  /\ bound_at_call = NoPath
  /\ swept = {}
  /\ wipe_begun = [u \in Uploaders |-> FALSE]
  /\ quiet = FALSE
  /\ wiping = NoFile
  /\ second = NotStarted

GateNext ==
  \/ upload_begin(1, GateRequests)
  \/ upload_exists(1)
  \/ upload_save(1)

GateSpec == GateInit /\ [][GateNext]_vars

(***************************************************************************)
(* The operator's handlers where they do not run to their end: start_job   *)
(* when the file system refuses the folder or the marker, and end_job      *)
(* when no session is open.  A handler that raises leaves through Tk's     *)
(* report_callback_exception and the main loop goes on.                    *)
(***************************************************************************)
\* lines 330-332: the id and the path are assigned, then mkdir raises
start_job_mkdir_fails ==
  /\ uiPc = "idle"
  /\ ~exists(JOBS_DIR, now_job_id(now))
  /\ current_job_path' = now_job_id(now)
  /\ uiPc' = "start_job_raised"
  /\ quiet' = FALSE
  /\ UNCHANGED << now, JOBS_DIR, locked, CURRENT_JOB_PATH, btn_end,
                  server_running, job_path, folders, rglob, wipePc, now_ts,
                  cleaned, up, requests, bound_at_call, swept, at_start,
                  wipe_begun, wiping, second >>

\* lines 330-333: the id, the path and the folder, then write_text raises
start_job_marker_fails ==
  /\ uiPc = "idle"
  /\ current_job_path' = now_job_id(now)
  /\ JOBS_DIR' = mkdir(JOBS_DIR, now_job_id(now), now)
  /\ uiPc' = "start_job_raised"
  /\ quiet' = FALSE
  /\ UNCHANGED << now, locked, CURRENT_JOB_PATH, btn_end, server_running,
                  job_path, folders, rglob, wipePc, now_ts, cleaned, up,
                  requests, bound_at_call, swept, at_start, wipe_begun,
                  wiping, second >>

\* the exception has been reported and the handler is over
callback_exception ==
  /\ uiPc = "start_job_raised"
  /\ uiPc' = "idle"
  /\ UNCHANGED << now, JOBS_DIR, locked, CURRENT_JOB_PATH,
                  current_job_path, btn_end, server_running, job_path,
                  folders, rglob, wipePc, now_ts, cleaned, up, requests,
                  bound_at_call, swept, at_start, wipe_begun, quiet,
                  wiping, second >>

\* lines 375-376: end_job called with self.current_job_path None (the End
\* button is disabled then, the method is not) takes the plain return
end_job_closed ==
  /\ uiPc = "idle"
  /\ current_job_path = NoPath
  /\ uiPc' = "end_job_closed"
  /\ UNCHANGED << now, JOBS_DIR, locked, CURRENT_JOB_PATH,
                  current_job_path, btn_end, server_running, job_path,
                  folders, rglob, wipePc, now_ts, cleaned, up, requests,
                  bound_at_call, swept, at_start, wipe_begun, quiet,
                  wiping, second >>

\* line 376: return
end_job_closed_return ==
  /\ uiPc = "end_job_closed"
  /\ uiPc' = "idle"
  /\ UNCHANGED << now, JOBS_DIR, locked, CURRENT_JOB_PATH,
                  current_job_path, btn_end, server_running, job_path,
                  folders, rglob, wipePc, now_ts, cleaned, up, requests,
                  bound_at_call, swept, at_start, wipe_begun, quiet,
                  wiping, second >>

FaultNext ==
  \/ Tick
  \/ upload_begin(1, SessionRequests)
  \/ upload_exists(1)
  \/ upload_save(1)
  \/ start_job
  \/ start_job_mkdir_fails
  \/ start_job_marker_fails
  \/ callback_exception
  \/ start_marker
  \/ start_publish
  \/ open_selected
  \/ end_job
  \/ end_job_closed
  \/ end_job_closed_return
  \/ end_job_return
  \/ emergency_clean
  \/ emergency_next
  \/ emergency_return
  \/ wipe_scan
  \/ wipe_file
  \/ wipe_rmtree
  \/ wipe_rmdir

FaultSpec == Init /\ [][FaultNext]_vars

(***************************************************************************)
(* basic_secure_delete_file (lines 81-112) followed write by write on one  *)
(* file.  The content of a file is a sequence of runs of bytes of one      *)
(* kind: "original", "random" (os.urandom) or "zero".  The file object     *)
(* buffers what is written until flush hands it to the operating system,   *)
(* and os.fsync forces it to the disk.                                     *)
(***************************************************************************)
MaxFileBytes == 3

\* line 98: 1024 * 1024
MiB == 1024 * 1024

Min(a, b) == IF a <= b THEN a ELSE b

Run(kind, len) == [kind |-> kind, len |-> len]

Original(size) == IF size = 0 THEN << >> ELSE <<Run("original", size)>>

RECURSIVE run_length(_)
run_length(runs) ==
  IF runs = << >> THEN 0 ELSE Head(runs).len + run_length(Tail(runs))

\* the first n bytes of a content
RECURSIVE take_bytes(_, _)
take_bytes(runs, n) ==
  IF n = 0 \/ runs = << >> THEN << >>
  ELSE IF Head(runs).len <= n
       THEN <<Head(runs)>> \o take_bytes(Tail(runs), n - Head(runs).len)
       ELSE <<Run(Head(runs).kind, n)>>

\* a content without its first n bytes
RECURSIVE drop_bytes(_, _)
drop_bytes(runs, n) ==
  IF runs = << >> THEN << >>
  ELSE IF n = 0 THEN runs
  ELSE IF Head(runs).len <= n
       THEN drop_bytes(Tail(runs), n - Head(runs).len)
       ELSE <<Run(Head(runs).kind, Head(runs).len - n)>> \o Tail(runs)

\* f.write of n bytes of one kind at offset pos of a file opened "r+b":
\* bytes under the write are replaced, the file grows when the write ends
\* beyond its end
file_write(runs, pos, kind, n) ==
  IF n = 0 THEN runs
  ELSE take_bytes(runs, pos) \o <<Run(kind, n)>> \o drop_bytes(runs, pos + n)

\* line 98 writing a full chunk whatever the size
random_len_full_chunk(size) == MiB

\* line 98: min(size, 1024 * 1024) bytes of os.urandom
random_len(size) == Min(size, MiB)

\* line 100: remaining = size - min(size, 1024 * 1024)
remaining(size) == size - Min(size, MiB)

\* the sizes of the files deleted: small ones and those around the chunk
FileSizes ==
  (0 .. MaxFileBytes)
  \cup { MiB - 1, MiB, MiB + 1, MiB + MaxFileBytes, 2 * MiB,
         MAX_UPLOAD_BYTES }

programVars ==
  << now, JOBS_DIR, locked, CURRENT_JOB_PATH, uiVars, up, requests,
     bound_at_call, swept, at_start, wipe_begun, quiet >>

\* line 124: the call, on a file that is there or gone, held open by
\* another program or not
delete_call ==
  /\ wiping = NoFile
  /\ \E size \in FileSizes, held \in BOOLEAN, linked \in BOOLEAN :
       wiping' = [pc |-> "exists", held |-> held, linked |-> linked,
                  size |-> 0, pos |-> 0, file |-> Original(size),
                  cache |-> Original(size), disk |-> Original(size)]
  /\ UNCHANGED << programVars, second >>

\* whether the entry is still there after unlink(missing_ok=True): a file
\* held open cannot be unlinked
after_unlink(f) == f.held /\ f.linked

\* lines 87-92: return when the file is gone; read its size; an empty
\* file is unlinked at once (line 91, and line 110 when that raises)
delete_stat ==
  /\ wiping.pc = "exists"
  /\ IF ~wiping.linked
     THEN wiping' = [wiping EXCEPT !.pc = "returned"]
     ELSE IF run_length(wiping.cache) <= 0
     THEN wiping' = [wiping EXCEPT !.pc = "returned",
                                   !.linked = after_unlink(wiping)]
     ELSE wiping' = [wiping EXCEPT !.pc = "open",
                                   !.size = run_length(wiping.cache)]
  /\ UNCHANGED << programVars, second >>

\* line 95: open(file_path, "r+b") raises on a file held open
delete_open ==
  /\ wiping.pc = "open"
  /\ wiping' = [wiping EXCEPT !.pc = IF wiping.held THEN "except"
                                     ELSE "seek"]
  /\ UNCHANGED << programVars, second >>

\* line 97, of the single pass
delete_seek ==
  /\ wiping.pc = "seek"
  /\ wiping' = [wiping EXCEPT !.pc = "write_random", !.pos = 0]
  /\ UNCHANGED << programVars, second >>

\* line 98
delete_write_random ==
  /\ wiping.pc = "write_random"
  /\ wiping' = [wiping EXCEPT
                  !.pc = "write_zeros",
                  !.file = file_write(wiping.file, wiping.pos, "random",
                                      random_len(wiping.size)),
                  !.pos = wiping.pos + random_len(wiping.size)]
  /\ UNCHANGED << programVars, second >>

\* lines 100-102
delete_write_zeros ==
  /\ wiping.pc = "write_zeros"
  /\ wiping' = IF remaining(wiping.size) > 0
               THEN [wiping EXCEPT
                       !.pc = "flush",
                       !.file = file_write(wiping.file, wiping.pos, "zero",
                                           remaining(wiping.size)),
                       !.pos = wiping.pos + remaining(wiping.size)]
               ELSE [wiping EXCEPT !.pc = "flush"]
  /\ UNCHANGED << programVars, second >>

\* line 103
delete_flush ==
  /\ wiping.pc = "flush"
  /\ wiping' = [wiping EXCEPT !.pc = "fsync", !.cache = wiping.file]
  /\ UNCHANGED << programVars, second >>

\* line 104
delete_fsync ==
  /\ wiping.pc = "fsync"
  /\ wiping' = [wiping EXCEPT !.pc = "close", !.disk = wiping.cache]
  /\ UNCHANGED << programVars, second >>

\* the end of the with block of line 95: the file object is closed
delete_close ==
  /\ wiping.pc = "close"
  /\ wiping' = [wiping EXCEPT !.pc = "unlink", !.cache = wiping.file]
  /\ UNCHANGED << programVars, second >>

\* line 106
delete_unlink ==
  /\ wiping.pc = "unlink"
  /\ wiping' = [wiping EXCEPT !.pc = "returned",
                              !.linked = after_unlink(wiping)]
  /\ UNCHANGED << programVars, second >>

\* lines 107-112: whatever was raised, unlink is tried once more and what
\* that raises is dropped
delete_except ==
  /\ wiping.pc = "except"
  /\ wiping' = [wiping EXCEPT !.pc = "returned",
                              !.linked = after_unlink(wiping)]
  /\ UNCHANGED << programVars, second >>

OverwriteNext ==
  \/ delete_call
  \/ delete_stat
  \/ delete_open
  \/ delete_seek
  \/ delete_write_random
  \/ delete_write_zeros
  \/ delete_flush
  \/ delete_fsync
  \/ delete_close
  \/ delete_unlink
  \/ delete_except

OverwriteSpec == Init /\ [][OverwriteNext]_vars

(***************************************************************************)
(* A second process of the program started while the first one runs:       *)
(* nothing keeps main() from being run twice, and both processes work on   *)
(* the same JOBS_DIR.  The second one's __init__ runs                      *)
(* cleanup_leftover_jobs (lines 132-152) while the first one's operator and *)
(* clients go on; the binding CURRENT_JOB_PATH is the first process's.     *)
(***************************************************************************)
\* LEFTOVER_TTL_SECONDS go by with no handler and no request under way
Wait ==
  /\ now < StartTime + LEFTOVER_TTL_SECONDS
  /\ uiPc = "idle"
  /\ \A u \in Uploaders : up[u].pc = "idle"
  /\ second = NotStarted
  /\ now' = now + LEFTOVER_TTL_SECONDS
  /\ UNCHANGED << JOBS_DIR, locked, CURRENT_JOB_PATH, uiVars, up, requests,
                  bound_at_call, swept, at_start, wipe_begun, quiet,
                  wiping, second >>

firstVars ==
  << now, locked, CURRENT_JOB_PATH, uiVars, up, requests, bound_at_call,
     swept, at_start, wipe_begun, quiet, wiping >>

\* lines 136-141: the clock is read and JOBS_DIR listed
second_launch ==
  /\ second = NotStarted
  /\ server_running
  /\ second' = [pc |-> "iterdir", now_ts |-> now,
                folders |-> DOMAIN JOBS_DIR, job_folder |-> NoPath,
                marker_ts |-> NoPath, rglob |-> {}, cleaned |-> 0,
                wiped |-> {}]
  /\ UNCHANGED << JOBS_DIR, firstVars >>

\* lines 141-143: the next listed entry; one that is no directory (any
\* more) is passed over
second_is_dir ==
  /\ second.pc = "iterdir"
  /\ \E job_folder \in second.folders :
       second' = [second EXCEPT
                    !.folders = @ \ {job_folder},
                    !.job_folder = job_folder,
                    !.pc = IF exists(JOBS_DIR, job_folder)
                           THEN "read_marker" ELSE "iterdir"]
  /\ UNCHANGED << JOBS_DIR, firstVars >>

\* line 144, and line 145
second_read_marker ==
  /\ second.pc = "read_marker"
  /\ LET marker_ts == read_marker_ts(JOBS_DIR, second.job_folder)
     IN  second' = [second EXCEPT
                      !.marker_ts = marker_ts,
                      !.pc = IF marker_ts = NoPath THEN "stat" ELSE "age"]
  /\ UNCHANGED << JOBS_DIR, firstVars >>

\* line 147: job_folder.stat() raises FileNotFoundError when the folder is
\* gone; nothing catches it and it leaves cleanup_leftover_jobs
second_stat ==
  /\ second.pc = "stat"
  /\ second' = IF exists(JOBS_DIR, second.job_folder)
               THEN [second EXCEPT
                       !.marker_ts = JOBS_DIR[second.job_folder].mtime,
                       !.pc = "age"]
               ELSE [second EXCEPT !.pc = "raised"]
  /\ UNCHANGED << JOBS_DIR, firstVars >>

\* lines 148-149 on the values read so far
age_expired(ts, marker_ts) == ts - marker_ts >= LEFTOVER_TTL_SECONDS

\* lines 148-150
second_age ==
  /\ second.pc = "age"
  /\ second' = [second EXCEPT
                  !.pc = IF age_expired(second.now_ts, second.marker_ts)
                         THEN "wipe_scan" ELSE "iterdir"]
  /\ UNCHANGED << JOBS_DIR, firstVars >>

\* lines 118-122 and 151, in the second process
second_wipe_scan ==
  /\ second.pc = "wipe_scan"
  /\ second' = IF exists(JOBS_DIR, second.job_folder)
               THEN [second EXCEPT
                       !.rglob = DOMAIN JOBS_DIR[second.job_folder].files,
                       !.wiped = @ \cup {second.job_folder},
                       !.pc = "wipe_files"]
               ELSE [second EXCEPT !.cleaned = @ + 1, !.pc = "iterdir"]
  /\ UNCHANGED << JOBS_DIR, firstVars >>

\* lines 122-124, in the second process
second_wipe_file ==
  /\ second.pc = "wipe_files"
  /\ \E p \in second.rglob :
       /\ JOBS_DIR' = basic_secure_delete_file(JOBS_DIR, locked,
                                                second.job_folder, p)
       /\ second' = [second EXCEPT !.rglob = @ \ {p}]
  /\ UNCHANGED firstVars

\* line 128, first half, in the second process
second_wipe_rmtree ==
  /\ second.pc = "wipe_files"
  /\ second.rglob = {}
  /\ JOBS_DIR' = rmtree_unlink(JOBS_DIR, locked, second.job_folder)
  /\ second' = [second EXCEPT !.pc = "wipe_rmdir"]
  /\ UNCHANGED firstVars

\* line 128, second half, and line 151, in the second process
second_wipe_rmdir ==
  /\ second.pc = "wipe_rmdir"
  /\ JOBS_DIR' = rmdir(JOBS_DIR, second.job_folder)
  /\ second' = [second EXCEPT !.cleaned = @ + 1, !.pc = "iterdir"]
  /\ UNCHANGED firstVars

\* line 152
second_return ==
  /\ second.pc = "iterdir"
  /\ second.folders = {}
  /\ second' = [second EXCEPT !.pc = "done"]
  /\ UNCHANGED << JOBS_DIR, firstVars >>

SecondNext ==
  \/ Wait
  \/ upload_begin(1, SessionRequests)
  \/ upload_exists(1)
  \/ upload_save(1)
  \/ start_job
  \/ start_marker
  \/ start_publish
  \/ end_job
  \/ end_job_return
  \/ emergency_clean
  \/ emergency_next
  \/ emergency_return
  \/ wipe_scan
  \/ wipe_file
  \/ wipe_rmtree
  \/ wipe_rmdir
  \/ second_launch
  \/ second_is_dir
  \/ second_read_marker
  \/ second_stat
  \/ second_age
  \/ second_wipe_scan
  \/ second_wipe_file
  \/ second_wipe_rmtree
  \/ second_wipe_rmdir
  \/ second_return

SecondSpec == Init /\ [][SecondNext]_vars

(***************************************************************************)
(* Properties.                                                             *)
(***************************************************************************)
\* a step in which request thread u completes f.save and the file is written
saves(u) ==
  up[u].pc = "save" /\ up'[u].pc = "idle" /\ up'[u].outcome = "Uploaded"

\* C1: once end_job or emergency_clean has returned, the folder of the
\* session that was bound no longer exists on disk, whatever the uploads
\* did meanwhile and whichever file resisted the wipe.
C1_SessionFolderGoneOnReturn ==
  [][ /\ (uiPc = "end_job" /\ uiPc' = "idle") => ~exists(JOBS_DIR', job_path)
      /\ (uiPc = "emergency_clean" /\ uiPc' = "idle"
            /\ bound_at_call # NoPath)
           => ~exists(JOBS_DIR', bound_at_call) ]_vars

\* C2: no request thread writes its file into a store after the wipe of that
\* store began: the start of a wipe never falls between the thread's read of
\* CURRENT_JOB_PATH and its f.save.
C2_NoSaveAfterWipeBegan ==
  [][ \A u \in Uploaders : saves(u) => ~wipe_begun[u] ]_vars

\* C3: a request that reads CURRENT_JOB_PATH as None is answered with the
\* no-active-session page at once, and its step changes nothing on disk,
\* whatever its file name and payload.
C3_ClosedRejects ==
  [][ (requests' = requests + 1 /\ CURRENT_JOB_PATH = NoPath)
        => /\ JOBS_DIR' = JOBS_DIR
           /\ \A u \in Uploaders :
                up'[u] # up[u]
                  => up'[u].pc = "idle"
                     /\ up'[u].outcome = "NoActiveSession" ]_vars

\* C3 witness: an oversized a.pdf sent while no session is open was answered
\* with the no-active-session page and the disk is as it was
C3_Witness ==
  /\ up[1].outcome = "NoActiveSession"
  /\ up[1].req =
       Request("file", <<"a", ".", "p", "d", "f">>, MAX_UPLOAD_BYTES + 1)
  /\ JOBS_DIR = at_start

\* some entry of the job root (a folder, or a file of one) is gone after the
\* step
removes_something ==
  \E j \in DOMAIN JOBS_DIR :
    \/ j \notin DOMAIN JOBS_DIR'
    \/ \E n \in DOMAIN JOBS_DIR[j].files : n \notin DOMAIN JOBS_DIR'[j].files

\* C4: in end_job and emergency_clean the binding is None from before the
\* first file is overwritten or deleted until the handler returns, so a
\* request that starts once the wipe has begun reads None.
C4_GateClosedBeforeWipe ==
  /\ [](uiPc \in {"end_job", "emergency_clean"} => CURRENT_JOB_PATH = NoPath)
  /\ [][removes_something => CURRENT_JOB_PATH = NoPath]_vars

\* C4 witness: end_job is past the deletion of the session's document while
\* a request that came after the wipe began has been turned away
C4_Witness ==
  /\ uiPc = "end_job"
  /\ wipePc = "rmdir"
  /\ exists(JOBS_DIR, job_path)
  /\ DOMAIN JOBS_DIR[job_path].files = {}
  /\ up[1].outcome = "Uploaded"
  /\ up[2].outcome = "NoActiveSession"

\* C5: start_job called while a session is open on X either leaves the
\* binding on X or has X's store wiped before it publishes the new binding;
\* so with the operator idle every folder of the job root is the bound one.
C5_StartNeverOrphans ==
  /\ [][ (uiPc = "start_publish" /\ uiPc' = "idle"
            /\ CURRENT_JOB_PATH # NoPath)
           => \/ CURRENT_JOB_PATH' = CURRENT_JOB_PATH
              \/ ~exists(JOBS_DIR', CURRENT_JOB_PATH) ]_vars
  /\ [](uiPc = "idle" =>
          \A j \in DOMAIN JOBS_DIR : j = CURRENT_JOB_PATH)

C7_EmergencyIdempotent ==
  [][ /\ (uiPc = "idle" /\ uiPc' = "emergency_clean" /\ quiet)
           => DOMAIN JOBS_DIR = {}
      /\ (uiPc = "emergency_clean" /\ uiPc' = "idle")
           => CURRENT_JOB_PATH' = NoPath ]_vars

\* C8: no admitted upload overwrites a file already stored: f.save never
\* writes to a name that exists in the store.
C8_NoOverwrite ==
  [][ \A u \in Uploaders :
        saves(u) => ~file_exists(JOBS_DIR, up[u].job_path, up[u].dest) ]_vars

\* the request passes every check of the gate other than the size check
passes_other_checks(req) ==
  /\ CURRENT_JOB_PATH # NoPath
  /\ req.field = "file"
  /\ req.filename # << >>
  /\ is_allowed(safe_filename(req.filename))

\* C9: a file of exactly MAX_UPLOAD_BYTES that passes the other checks is
\* admitted, and one of MAX_UPLOAD_BYTES + 1 is rejected as too large and
\* not stored.
C9_SizeBoundaryExact ==
  \A u \in Uploaders :
    passes_other_checks(up[u].req) =>
      /\ up[u].req.payload <= MAX_UPLOAD_BYTES
           => up[u].outcome # "PayloadTooLarge"
      /\ up[u].req.payload > MAX_UPLOAD_BYTES
           => up[u].outcome = "PayloadTooLarge" /\ JOBS_DIR = at_start

\* the extensions of the documentation, without the dot
C10_Extensions ==
  { <<"p", "d", "f">>, <<"p", "n", "g">>, <<"j", "p", "g">>,
    <<"j", "p", "e", "g">>, <<"d", "o", "c">>, <<"d", "o", "c", "x">>,
    <<"t", "x", "t">>, <<"p", "p", "t">>, <<"p", "p", "t", "x">>,
    <<"x", "l", "s">>, <<"x", "l", "s", "x">> }

\* the lower-cased final extension of a name: what follows its last dot,
\* none when the name has no dot or the last dot begins or ends it
C10_FinalExtension(n) ==
  LET dots == { i \in 1 .. Len(n) : n[i] = "." }
      last == CHOOSE i \in dots : \A k \in dots : k <= i
  IN  IF dots = {} THEN << >>
      ELSE IF last = 1 \/ last = Len(n) THEN << >>
      ELSE [k \in 1 .. (Len(n) - last) |-> lower(n[last + k])]

\* C10: a request that reaches the extension check is rejected with
\* ExtensionNotAllowed exactly when the lower-cased final extension of its
\* sanitized name is not one of the eleven allowed, and a rejected request
\* stores nothing.
C10_ExtensionCheck ==
  \A u \in Uploaders :
    ( /\ up[u].req.field = "file"
      /\ up[u].req.filename # << >>
      /\ ~too_large(up[u].req)
      /\ CURRENT_JOB_PATH # NoPath )
    => /\ up[u].outcome = "ExtensionNotAllowed"
            <=> C10_FinalExtension(safe_filename(up[u].req.filename))
                  \notin C10_Extensions
       /\ up[u].outcome = "ExtensionNotAllowed" => JOBS_DIR = at_start

\* C10 witness: a.PDF has been stored
C10_Witness ==
  /\ up[1].req.filename = <<"a", ".", "P", "D", "F">>
  /\ up[1].outcome = "Uploaded"
  /\ <<"a", ".", "P", "D", "F">> \in DOMAIN JOBS_DIR[StartTime].files

\* the name is a single path component other than "." and "..": joined to a
\* folder it names a direct child of that folder
C11_PlainName(n) ==
  /\ \A i \in 1 .. Len(n) : n[i] \notin {"/", "\\"}
  /\ n # << >>
  /\ n # <<".">>
  /\ n # <<".", ".">>

\* C11: whatever the file name sent, the sanitized name and the destination
\* of an admitted upload are single path components other than "." and
\* "..", and a file an upload creates is a direct child of the bound store.
C11_DestinationInsideStore ==
  /\ [](\A u \in Uploaders :
          /\ up[u].pc \in {"exists", "save"} => C11_PlainName(up[u].name)
          /\ up[u].pc = "save" => C11_PlainName(up[u].dest))
  /\ [][ \A j \in DOMAIN JOBS_DIR' :
           \A n \in DOMAIN JOBS_DIR'[j].files :
             ~file_exists(JOBS_DIR, j, n)
               => j = CURRENT_JOB_PATH /\ C11_PlainName(n) ]_vars

\* C11 witness: ../../e.pdf was sent and the bound store, the only folder of
\* the job root, holds .._.._e.pdf
C11_Witness ==
  /\ up[1].req.filename =
       <<".", ".", "/", ".", ".", "/", "e", ".", "p", "d", "f">>
  /\ up[1].outcome = "Uploaded"
  /\ DOMAIN JOBS_DIR = {StartTime}
  /\ <<".", ".", "_", ".", ".", "_", "e", ".", "p", "d", "f">>
       \in DOMAIN JOBS_DIR[StartTime].files

\* the reason of the first failing check in the order of the documentation:
\* session, file selected, sanitized name not empty, extension, size (the
\* size as the server measures it, so that only the order is at stake)
C12_FirstFailing(binding, req) ==
  IF binding = NoPath THEN "NoActiveSession"
  ELSE IF req.field # "file" \/ req.filename = << >> THEN "NoFileSelected"
  ELSE IF safe_filename(req.filename) = << >> THEN "InvalidFilename"
  ELSE IF C10_FinalExtension(safe_filename(req.filename))
            \notin C10_Extensions
       THEN "ExtensionNotAllowed"
  ELSE IF too_large(req) THEN "PayloadTooLarge"
  ELSE "admit"

\* C12: a rejected request is answered with the reason of the first failing
\* check in the order NoActiveSession, NoFileSelected, InvalidFilename,
\* ExtensionNotAllowed, PayloadTooLarge, and a request is admitted only
\* when no check fails.
C12_ReasonOfFirstFailingCheck ==
  \A u \in Uploaders :
    up[u].req # NoRequest =>
      LET first == C12_FirstFailing(CURRENT_JOB_PATH, up[u].req)
      IN  IF up[u].pc = "idle" /\ up[u].outcome \notin {"Uploaded",
                                                         "WriteFailed"}
          THEN up[u].outcome = first
          ELSE first = "admit"

\* C20: a request whose sanitized name is the marker's is turned away at the
\* extension check, no destination of an admitted upload is the marker, and
\* no step of a request creates, replaces or changes the marker of a store.
C20_MarkerOutOfReach ==
  /\ [](\A u \in Uploaders :
          /\ (up[u].req # NoRequest
                /\ safe_filename(up[u].req.filename) = MarkerName)
               => up[u].pc = "idle"
                  /\ up[u].outcome \in {"NoActiveSession", "PayloadTooLarge",
                                        "NoFileSelected",
                                        "ExtensionNotAllowed"}
          /\ up[u].pc = "save" => up[u].dest # MarkerName)
  /\ [][ \A j \in DOMAIN JOBS_DIR' :
           /\ file_exists(JOBS_DIR', j, MarkerName)
                => file_exists(JOBS_DIR, j, MarkerName)
           /\ file_exists(JOBS_DIR, j, MarkerName)
                => /\ file_exists(JOBS_DIR', j, MarkerName)
                   /\ JOBS_DIR'[j].files[MarkerName]
                        = JOBS_DIR[j].files[MarkerName] ]_vars

\* C20 witness: .jobmeta was sent into an open session and turned away, and
\* the marker still holds the second start_job wrote
C20_Witness ==
  /\ up[1].req = Request("file", MarkerName, 1)
  /\ up[1].outcome = "ExtensionNotAllowed"
  /\ file_exists(JOBS_DIR, StartTime, MarkerName)
  /\ read_marker_ts(JOBS_DIR, StartTime) = StartTime

\* C14: the id start_job generates differs from the id of every folder that
\* exists under the job root at that moment, so the new session never
\* binds to a folder another session made.
C14_FreshJobId ==
  [][ (uiPc = "idle" /\ uiPc' = "start_marker")
        => ~exists(JOBS_DIR, current_job_path') ]_vars

C13_EndJobWithoutSessionFails ==
  [][ (uiPc = "idle" /\ current_job_path = NoPath
         /\ uiPc' \in {"end_job", "end_job_closed", "end_job_raised"})
        => /\ uiPc' = "end_job_raised"
           /\ CURRENT_JOB_PATH' = NoPath
           /\ current_job_path' = NoPath
           /\ JOBS_DIR' = JOBS_DIR ]_vars

\* C16: the binding is set to X only when X's folder and marker exist, and
\* a start_job that fails at the folder or at the marker leaves the binding
\* and the operator's job path as they were before the call.
C16_PublishAfterCreateOrNoChange ==
  /\ [][ (CURRENT_JOB_PATH' # CURRENT_JOB_PATH
            /\ CURRENT_JOB_PATH' # NoPath)
           => file_exists(JOBS_DIR, CURRENT_JOB_PATH', MarkerName) ]_vars
  /\ [][ (uiPc = "idle" /\ uiPc' = "start_job_raised")
           => /\ CURRENT_JOB_PATH' = CURRENT_JOB_PATH
              /\ current_job_path' = current_job_path ]_vars

\* what a file of s bytes holds once overwritten: os.urandom bytes up to
\* the first MiB, zeros from there to its end
C19_Overwritten(s) ==
  IF s <= MiB THEN <<Run("random", s)>>
  ELSE <<Run("random", MiB), Run("zero", s - MiB)>>

\* C19: a file of s > 0 bytes that was opened keeps its length s through
\* the overwrite, and when its entry is unlinked the disk holds s bytes, the
\* first min(s, 1 MiB) random and the rest zero, none of them original.
C19_OverwriteThenUnlink ==
  /\ [](wiping.pc \in {"write_random", "write_zeros", "flush", "fsync",
                       "close", "unlink"}
          => /\ wiping.size > 0
             /\ run_length(wiping.file) = wiping.size)
  /\ [][ (wiping.pc = "unlink" /\ wiping'.pc = "returned")
           => /\ wiping.disk = C19_Overwritten(wiping.size)
              /\ wiping.cache = wiping.disk
              /\ ~wiping'.linked ]_vars

\* C19 witness: a file one byte longer than the chunk has been overwritten,
\* synced and unlinked
C19_Witness ==
  /\ wiping.pc = "returned"
  /\ wiping.size = MiB + 1
  /\ wiping.disk = <<Run("random", MiB), Run("zero", 1)>>
  /\ ~wiping.linked

\* C15: the sweep hands the bound store to the wipe only with the binding
\* cleared first, so a pass never ends with the binding on a folder it wiped.
C15_SweepClearsBindingFirst ==
  /\ [][ (second.pc = "age" /\ second'.pc = "wipe_scan")
           => CURRENT_JOB_PATH' # second.job_folder ]_vars
  /\ [](second.pc = "done" => CURRENT_JOB_PATH \notin second.wiped)

\* C18: a pass of the sweep never raises, whenever a folder it listed is
\* removed by emergency_clean or end_job meanwhile; and the age of a folder
\* whose marker is absent or unreadable is taken from the folder's mtime.
C18_SweepToleratesVanishing ==
  /\ [](second.pc # "raised")
  /\ [][ (second.pc = "stat" /\ second'.pc = "age")
           => second'.marker_ts = JOBS_DIR[second.job_folder].mtime ]_vars

====
